---- MODULE Spec2Model ----
(***************************************************************************)
(* State-machine model of the open-manus agent:                            *)
(*   - the outer plan/act loop of Agent.run            (src/agent/agent.ts) *)
(*     and its variant in unnamed/part_009                                 *)
(*   - the MemoryStore indices                  (src/agent/memory-store.ts) *)
(* Each component has its own specification; the variables of the other    *)
(* components stay at their initial values.                                *)
(***************************************************************************)
EXTENDS Integers, Sequences, FiniteSets, TLC

VARIABLES
  \* ---- Agent (agent.ts)
  orchestrator,   \* which Agent class runs: "agent.ts" or "part_009"
  optMaxSteps,    \* the configured maxSteps: options.maxSteps, in part_009
                  \* Number(process.env.MAX_STEPS) (0: absent or 0)
  maxSteps,       \* this.maxSteps
  currentStep,    \* this.currentStep
  aPc,            \* position of run(): loop, plan, exec, afterloop, report, done
  researchData,   \* this.researchData: sequence of [type, stepId], with the
                  \* rank of the handler's completion among all completions
  steps,          \* the Step objects created by determineNextStep, in order
  planCalls,      \* number of determineNextStep calls made
  dispatches,     \* number of executeStep calls made
  exitBy,         \* how the while loop was left: none, cond, complete, catch
  thrownBy,       \* which call threw into run()'s catch: none, planner, handler
  console,        \* kinds of console lines written so far
  reportCalls,    \* number of generateReport calls made
  runOutcome,     \* run()'s promise: pending, resolved, rejected
  \* ---- MemoryStore (memory-store.ts)
  dataByType,     \* Map<string, DataEntry[]>
  dataByStepId,   \* Map<number, DataEntry[]>
  allData,        \* DataEntry[]
  now,            \* Date.now()
  history,        \* the MemoryStore calls made so far, in order
  \* ---- BrowserTool.executeGoal (tools/browser.ts), one dispatch
  goal,           \* the locals of executeGoal and the state of its session
  \* ---- BrowserTool with the shared session (unnamed/part_004)
  shared,         \* the static fields of BrowserTool, the sessions, the environment
  tool,           \* per BrowserTool instance: browserInstalled, activeConnections
  disp,           \* per dispatch: the locals of execute and executeWithOptimizedSteps
  pageTrace,      \* the runAtomicStep calls that reached a page, in order: who, on which session
  \* ---- the benchmark (src/benchmark/index.ts)
  bench,          \* one scoring: ground truth, the agent's answer, the verdict
  \* ---- the configuration of the two step budgets
  budget,         \* two configurations side by side and the budgets built from them
  \* ---- the terminal capability (unnamed/part_009)
  terminal,       \* one call of terminal.execute: its parameters and how it ended
  \* ---- todo.md and the subtasks (tools/file.ts, unnamed/part_009)
  todo            \* the lines of todo.md, this.subtasks, and the calls made so far

agentVars == <<orchestrator, optMaxSteps, maxSteps, currentStep, aPc, researchData, steps,
               planCalls, dispatches, exitBy, thrownBy, console, reportCalls,
               runOutcome>>
memVars == <<dataByType, dataByStepId, allData, now, history>>
goalVars == <<goal>>
optVars == <<shared, tool, disp, pageTrace>>
benchVars == <<bench>>
restVars == <<budget, terminal, todo>>
vars == <<agentVars, memVars, goalVars, optVars, benchVars, restVars>>

\* ------------------------------------------------------------------ bounds
MaxOptSteps == 3    \* largest options.maxSteps the caller passes
MaxCalls == 2       \* most tool calls in one generateText response
MaxData == 2        \* researchData entries recorded in one run
MaxOps == 4         \* MemoryStore calls in one behaviour
MaxClock == 2       \* largest Date.now() value
StepCap == 12       \* where stepCount stops growing when MAX_STEPS is NaN
MaxResults == 4     \* results collected in one browser dispatch
MaxEntries == 3     \* largest maxEntries passed to getConciseContext
MaxSpread == 5      \* numbers scored lie within this distance of 100
NumDispatches == 2  \* browser dispatches that act on pages in one behaviour
MaxDispatches == 4  \* execute calls in one behaviour
MaxWords == 2       \* fragments of a shell command
MaxSubtasks == 2    \* subtasks of the plan todo.md is created with
MaxTodoOps == 4     \* todo operations and step completions after the creation

\* ------------------------------------------------------- program constants
DefaultMaxSteps == 20

ToolNames == {"search", "browser", "fileOperations", "javascriptExecutor"}
\* the tools the selection oracle calls in the behaviours explored
ToolsCalled == {"search", "fileOperations"}

\* the switch of executeStep: the researchData type recorded for a tool call
ResearchType(toolName) ==
  CASE toolName = "search" -> "search"
    [] toolName = "browser" -> "browser"
    [] toolName = "fileOperations" -> "fileOperation"
    [] toolName = "javascriptExecutor" -> "javascriptExecution"

\* sequences over S of length at most n
SeqUpTo(S, n) == UNION {[1..k -> S] : k \in 0..n}

\* ================================================================== Agent
\* constructor: options.maxSteps || this.maxSteps
ConstructedMaxSteps(opt) == IF opt = 0 THEN DefaultMaxSteps ELSE opt

Orchestrators == {"agent.ts", "part_009"}

InitAgent ==
  /\ orchestrator \in Orchestrators
  /\ optMaxSteps \in 0..MaxOptSteps
  /\ maxSteps = ConstructedMaxSteps(optMaxSteps)
  /\ currentStep = 0
  /\ aPc = "loop"
  /\ researchData = <<>>
  /\ steps = <<>>
  /\ planCalls = 0
  /\ dispatches = 0
  /\ exitBy = "none"
  /\ thrownBy = "none"
  /\ console = {}
  /\ reportCalls = 0
  /\ runOutcome = "pending"

LoopConditionInclusive == currentStep <= maxSteps
\* while (this.currentStep < this.maxSteps)
LoopCondition == currentStep < maxSteps

CatchContinues == "loop"
\* catch (error) { console.error(...); break; }
CatchTarget == "afterloop"

\* the loop test succeeds: currentStep++ and determineNextStep is called
LoopEnter ==
  /\ aPc = "loop"
  /\ LoopCondition
  /\ currentStep' = currentStep + 1
  /\ console' = console \cup {"--- Step"}
  /\ planCalls' = planCalls + 1
  /\ aPc' = "plan"
  /\ UNCHANGED <<orchestrator, optMaxSteps, maxSteps, researchData, steps, dispatches, exitBy,
                 thrownBy, reportCalls, runOutcome,
                 memVars, goalVars, optVars, benchVars, restVars>>

\* the loop test fails: the loop ends with no message of its own
LoopExhausted ==
  /\ aPc = "loop"
  /\ ~LoopCondition
  /\ exitBy' = "cond"
  /\ aPc' = "afterloop"
  /\ UNCHANGED <<orchestrator, optMaxSteps, maxSteps, currentStep, researchData, steps, planCalls,
                 dispatches, thrownBy, console, reportCalls, runOutcome,
                 memVars, goalVars, optVars, benchVars, restVars>>

\* determineNextStep returns isComplete: true; run() breaks
PlanComplete ==
  /\ aPc = "plan"
  /\ console' = console \cup {"Next step determined", "Task completed"}
  /\ exitBy' = "complete"
  /\ aPc' = "afterloop"
  /\ UNCHANGED <<orchestrator, optMaxSteps, maxSteps, currentStep, researchData, steps, planCalls,
                 dispatches, thrownBy, reportCalls, runOutcome,
                 memVars, goalVars, optVars, benchVars, restVars>>

\* determineNextStep returns a step; executeStep sets it running and calls generateText
PlanNext ==
  /\ aPc = "plan"
  /\ console' = console \cup {"Next step determined", "Executing"}
  /\ steps' = Append(steps, [id |-> currentStep, status |-> "running",
                              error |-> "none", invoked |-> 0])
  /\ dispatches' = dispatches + 1
  /\ aPc' = "exec"
  /\ UNCHANGED <<orchestrator, optMaxSteps, maxSteps, currentStep, researchData, planCalls, exitBy,
                 thrownBy, reportCalls, runOutcome,
                 memVars, goalVars, optVars, benchVars, restVars>>

\* generateObject throws: determineNextStep rethrows, run() catches and breaks
PlanFail ==
  /\ aPc = "plan"
  /\ console' = console \cup {"Failed to determine next step", "Error executing step"}
  /\ thrownBy' = "planner"
  /\ exitBy' = "catch"
  /\ aPc' = CatchTarget
  /\ UNCHANGED <<orchestrator, optMaxSteps, maxSteps, currentStep, researchData, steps, planCalls,
                 dispatches, reportCalls, runOutcome,
                 memVars, goalVars, optVars, benchVars, restVars>>

\* the entries executeStep pushes for the tool calls of one response
\* the handlers of one response run concurrently; of the orders in which n of
\* them may complete, the two explored: as requested, and reversed.
\* order[i] is the place of the i-th tool call among the completions
CompletionOrders(n) ==
  {[i \in 1..n |-> i], [i \in 1..n |-> n + 1 - i]}

Recorded(calls, stepId, done, order) ==
  [i \in 1..Len(calls) |-> [type |-> ResearchType(calls[i]), stepId |-> stepId,
                            rank |-> done + order[i]]]

\* what the forEach of a context method writes for an entry whose data
\* JSON.stringify renders: `Step ${stepId}: ${type} operation` and the data
ContextLine(entry) == [stepId |-> entry.stepId, type |-> entry.type]

\* getPreviousStepsContext(): the sentinel at the first step, else the
\* heading and one block per entry of researchData
GetPreviousStepsContext ==
  IF currentStep = 1 THEN [first |-> TRUE, lines |-> <<>>]
  ELSE [first |-> FALSE,
        lines |-> [i \in 1..Len(researchData) |-> ContextLine(researchData[i])]]

\* MemoryStore.getFormattedContext() of a store whose allData is `log`
FormattedContextOf(log) ==
  IF Len(log) = 0 THEN [first |-> TRUE, lines |-> <<>>]
  ELSE [first |-> FALSE, lines |-> [i \in 1..Len(log) |-> ContextLine(log[i])]]

\* generateText returns: one entry per tool call is pushed, the step is completed
ExecReturn ==
  /\ aPc = "exec"
  /\ \E calls \in SeqUpTo(ToolsCalled, MaxCalls) :
       /\ Len(researchData) + Len(calls) <= MaxData
       /\ \E order \in CompletionOrders(Len(calls)) :
            researchData' = researchData \o
              Recorded(calls, steps[Len(steps)].id, Len(researchData), order)
       /\ steps' = [steps EXCEPT ![Len(steps)].status = "completed",
                                 ![Len(steps)].invoked = Len(calls)]
  /\ console' = console \cup {"Completed step"}
  /\ aPc' = "loop"
  /\ UNCHANGED <<orchestrator, optMaxSteps, maxSteps, currentStep, planCalls, dispatches, exitBy,
                 thrownBy, reportCalls, runOutcome,
                 memVars, goalVars, optVars, benchVars, restVars>>

\* the catch of executeStep: agent.ts marks the step failed and keeps the
\* message; part_009 only logs
CaughtStep(step) ==
  IF orchestrator = "agent.ts"
  THEN [step EXCEPT !.status = "failed", !.error = "message"]
  ELSE step

\* generateText throws (the model call, before any handler ran, or one of the
\* handlers it invoked): executeStep rethrows, run() catches and breaks
ExecThrow ==
  /\ aPc = "exec"
  /\ \E n \in 0..1 :
       steps' = [steps EXCEPT ![Len(steps)] = CaughtStep([@ EXCEPT !.invoked = n])]
  /\ console' = console \cup {IF orchestrator = "agent.ts" THEN "Step failed"
                                ELSE "Error in generateText call",
                              "Error executing step"}
  /\ thrownBy' = "handler"
  /\ exitBy' = "catch"
  /\ aPc' = CatchTarget
  /\ UNCHANGED <<orchestrator, optMaxSteps, maxSteps, currentStep, researchData, planCalls,
                 dispatches, reportCalls, runOutcome,
                 memVars, goalVars, optVars, benchVars, restVars>>

\* a run() that reports whatever was recorded
ReportsAlways == TRUE
\* if (this.researchData.length > 0)
HasResearchData == Len(researchData) > 0

\* after the loop, researchData is not empty: generateReport is called
StartReport ==
  /\ aPc = "afterloop"
  /\ HasResearchData
  /\ reportCalls' = reportCalls + 1
  /\ aPc' = "report"
  /\ UNCHANGED <<orchestrator, optMaxSteps, maxSteps, currentStep, researchData, steps, planCalls,
                 dispatches, exitBy, thrownBy, console, runOutcome,
                 memVars, goalVars, optVars, benchVars, restVars>>

\* after the loop, researchData is empty: run() logs and returns
FinishNoReport ==
  /\ aPc = "afterloop"
  /\ ~HasResearchData
  /\ console' = console \cup (IF orchestrator = "agent.ts"
                               THEN {"Agent completed after"} ELSE {})
  /\ runOutcome' = "resolved"
  /\ aPc' = "done"
  /\ UNCHANGED <<orchestrator, optMaxSteps, maxSteps, currentStep, researchData, steps, planCalls,
                 dispatches, exitBy, thrownBy, reportCalls,
                 memVars, goalVars, optVars, benchVars, restVars>>

\* generateReport returns: run() logs and returns
ReportReturn ==
  /\ aPc = "report"
  /\ console' = console \cup {"REPORT GENERATED"}
                  \cup (IF orchestrator = "agent.ts"
                        THEN {"Agent completed after"} ELSE {})
  /\ runOutcome' = "resolved"
  /\ aPc' = "done"
  /\ UNCHANGED <<orchestrator, optMaxSteps, maxSteps, currentStep, researchData, steps, planCalls,
                 dispatches, exitBy, thrownBy, reportCalls,
                 memVars, goalVars, optVars, benchVars, restVars>>

\* generateReport throws: run() rejects without its last line
ReportThrow ==
  /\ aPc = "report"
  /\ console' = console \cup {"Failed to generate report"}
  /\ runOutcome' = "rejected"
  /\ aPc' = "done"
  /\ UNCHANGED <<orchestrator, optMaxSteps, maxSteps, currentStep, researchData, steps, planCalls,
                 dispatches, exitBy, thrownBy, reportCalls,
                 memVars, goalVars, optVars, benchVars, restVars>>

\* the exit code of the process: the CLI action awaits run(); the process ends
\* with 0 when it resolves and with 1 when it rejects
ExitCode == IF runOutcome = "rejected" THEN 1 ELSE 0

\* ============================================================ MemoryStore
StepIds == 1..2
Types == {"search", "browser"}
Payloads == {"p"}

InitMem ==
  /\ dataByType = <<>>
  /\ dataByStepId = <<>>
  /\ allData = <<>>
  /\ now = 0
  /\ history = <<>>

\* Map.set(k, v)
MapSet(m, k, v) == [x \in (DOMAIN m) \cup {k} |-> IF x = k THEN v ELSE m[x]]
\* Map.delete(k)
MapDelete(m, k) == [x \in (DOMAIN m) \ {k} |-> m[x]]
\* Map.get(k) || []
MapGetOrEmpty(m, k) == IF k \in DOMAIN m THEN m[k] ELSE <<>>

\* entries.filter((entry) => entry.stepId !== stepId)
WithoutStep(entries, stepId) == SelectSeq(entries, LAMBDA e : e.stepId # stepId)

PushReplacing(m, k, entry) == MapSet(m, k, <<entry>>)
\* if (!map.has(k)) map.set(k, []); map.get(k).push(entry)
PushInto(m, k, entry) == MapSet(m, k, Append(MapGetOrEmpty(m, k), entry))

\* addResult(stepId, type, data); id stands for the identity of the new object
AddResult(stepId, type, data) ==
  /\ Len(history) < MaxOps
  /\ \E t \in now..(IF now < MaxClock THEN now + 1 ELSE now) :
       LET entry == [id |-> Len(history) + 1, stepId |-> stepId, type |-> type,
                     data |-> data, timestamp |-> t]
       IN /\ dataByType' = PushInto(dataByType, type, entry)
          /\ dataByStepId' = PushInto(dataByStepId, stepId, entry)
          /\ allData' = Append(allData, entry)
          /\ now' = t
          /\ history' = Append(history, [op |-> "add", entry |-> entry])
  /\ UNCHANGED <<agentVars, goalVars, optVars, benchVars, restVars>>

ClearedLeavingLog(log, stepId) == log
\* this.allData = this.allData.filter((entry) => entry.stepId !== stepId)
ClearedLog(log, stepId) == WithoutStep(log, stepId)

\* a loop that deletes every type the step has an entry of
ClearedDroppingTypes(m, stepId) ==
  LET kept == {t \in DOMAIN m : WithoutStep(m[t], stepId) = m[t]}
  IN [t \in kept |-> m[t]]

\* the loop of clearStepData over the type index
ClearedTypeIndex(m, stepId) ==
  LET kept == {t \in DOMAIN m : Len(WithoutStep(m[t], stepId)) # 0}
  IN [t \in kept |-> WithoutStep(m[t], stepId)]

\* clearStepData(stepId)
ClearStepData(stepId) ==
  /\ Len(history) < MaxOps
  /\ dataByStepId' = MapDelete(dataByStepId, stepId)
  /\ dataByType' = ClearedTypeIndex(dataByType, stepId)
  /\ allData' = ClearedLog(allData, stepId)
  /\ history' = Append(history, [op |-> "clear", stepId |-> stepId])
  /\ UNCHANGED <<now, agentVars, goalVars, optVars, benchVars, restVars>>

\* getResultsByStepId(stepId)
GetResultsByStepId(stepId) == MapGetOrEmpty(dataByStepId, stepId)
\* getResultsByType(type)
GetResultsByType(type) == MapGetOrEmpty(dataByType, type)

\* the payloads a caller may hand to addResult: a plain object, undefined, a
\* function, an object with a cycle, a BigInt
PayloadKinds == {"p", "undefined", "function", "cyclic", "bigint"}

\* JSON.stringify(data): a string, the value undefined, or a TypeError
Stringify(data) ==
  CASE data \in {"undefined", "function"} -> "undefined"
    [] data \in {"cyclic", "bigint"} -> "throws"
    [] OTHER -> "string"

\* the position of entry i after [...entries].sort((a, b) => b.timestamp -
\* a.timestamp): the sort is stable, equal timestamps keep their order
SortedPosition(entries, i) ==
  1 + Cardinality({j \in 1..Len(entries) :
                     \/ entries[j].timestamp > entries[i].timestamp
                     \/ entries[j].timestamp = entries[i].timestamp /\ j < i})

SortedByTimestampDesc(entries) ==
  [k \in 1..Len(entries) |->
     entries[CHOOSE i \in 1..Len(entries) : SortedPosition(entries, i) = k]]

\* getLatestResults(limit)
GetLatestResults(limit) ==
  LET sorted == SortedByTimestampDesc(allData)
  IN SubSeq(sorted, 1, IF limit < Len(sorted) THEN limit ELSE Len(sorted))

\* what one forEach step of a context method appends for an entry
Rendered(entry, body) == [id |-> entry.id, stepId |-> entry.stepId,
                          type |-> entry.type, body |-> body]

\* getFormattedContext(): the template renders undefined as text; a TypeError
\* of JSON.stringify leaves the method
GetFormattedContext ==
  IF Len(allData) = 0 THEN [threw |-> FALSE, first |-> TRUE, entries |-> <<>>]
  ELSE IF \E i \in 1..Len(allData) : Stringify(allData[i].data) = "throws"
  THEN [threw |-> TRUE, first |-> FALSE, entries |-> <<>>]
  ELSE [threw |-> FALSE, first |-> FALSE,
        entries |-> [i \in 1..Len(allData) |->
                       Rendered(allData[i], Stringify(allData[i].data))]]

\* getConciseContext(maxEntries): dataStr.length is read, so an undefined
\* dataStr is a TypeError too
GetConciseContext(maxEntries) ==
  LET recent == GetLatestResults(maxEntries)
  IN IF Len(allData) = 0 THEN [threw |-> FALSE, first |-> TRUE, entries |-> <<>>]
     ELSE IF \E i \in 1..Len(recent) : Stringify(recent[i].data) # "string"
     THEN [threw |-> TRUE, first |-> FALSE, entries |-> <<>>]
     ELSE [threw |-> FALSE, first |-> FALSE,
           entries |-> [i \in 1..Len(recent) |-> Rendered(recent[i], "string")]]

MemAdd == \E s \in StepIds, t \in Types, d \in Payloads : AddResult(s, t, d)
\* addResult with any kind of payload, for one step and type
MemAddAny == \E d \in PayloadKinds : AddResult(1, "search", d)
MemClear == \E s \in StepIds : ClearStepData(s)

\* ============================================ BrowserTool.executeGoal
\* NaN, the value parseInt gives for a text that starts with no digit
NaN == 0 - 1
\* values of process.env.MAX_STEPS; "unset" is an absent (or empty) variable
EnvValues == {"unset", "abc", "0", "3", "5"}
\* parseInt(process.env.MAX_STEPS || dflt)
ParseMaxSteps(env, dflt) ==
  CASE env = "unset" -> dflt
    [] env = "abc" -> NaN
    [] env = "0" -> 0
    [] env = "2" -> 2
    [] env = "3" -> 3
    [] env = "5" -> 5
\* a > b and a >= b and a < b on JavaScript numbers: false when either is NaN
Gt(a, b) == a # NaN /\ b # NaN /\ a > b
Ge(a, b) == a # NaN /\ b # NaN /\ a >= b
Lt(a, b) == a # NaN /\ b # NaN /\ a < b
\* stepCount++ (it stays at StepCap; only a NaN budget lets it get there)
Incr(n) == IF n < StepCap THEN n + 1 ELSE n

GoalDefaultMaxSteps == 10
MAX_SIMILAR_STEPS == 3

\* the (method, instruction) pairs the browser oracle answers with
Decisions ==
  [method : {"ACT"}, instruction : {"a", "b"}]
    \cup [method : {"EXTRACT", "OBSERVE", "AI_HANDLE", "CLOSE"}, instruction : {"a"}]
NoDecision == [method |-> "", instruction |-> ""]
\* `${method}:${instruction}`
ActionKey(d) == <<d.method, d.instruction>>
NoAction == <<>>

\* the loop detection block: the new counter, the new lastAction, and whether
\* the loop breaks
LoopDetection(similar, last, cur) ==
  IF cur = last
  THEN [count |-> similar + 1, last |-> last,
        detected |-> (similar + 1 >= MAX_SIMILAR_STEPS)]
  ELSE [count |-> 0, last |-> cur, detected |-> FALSE]

\* a processExtractedData that falls to its default record
ExtractedTypeRaw(method) == "raw"

\* processExtractedData(...).type
ExtractedType(method) ==
  CASE method = "EXTRACT" -> "extract"
    [] method = "HTML" -> "html"

\* the message of the BrowserResult executeGoal returns
GoalMessage(g) ==
  IF g.goalCompleted THEN "Task completed successfully"
  ELSE IF g.similarStepsCount >= MAX_SIMILAR_STEPS
       THEN "Task terminated (detected repetitive actions)"
  ELSE IF Ge(g.stepCount, g.MAX_STEPS) THEN "Task terminated (reached maximum steps)"
  ELSE "Task terminated"

NewGoal(env, url) ==
  [env |-> env, MAX_STEPS |-> ParseMaxSteps(env, GoalDefaultMaxSteps),
   url |-> url, pc |-> "install", stepCount |-> 0,
   similarStepsCount |-> 0, lastAction |-> NoAction,
   goalCompleted |-> FALSE, results |-> <<>>, cur |-> NoDecision,
   session |-> "none", outcome |-> "pending", message |-> "",
   totalSteps |-> 0, exit |-> "none",
   decisions |-> 0, first |-> NoDecision, allSame |-> TRUE,
   run |-> 0, last |-> NoDecision, gotos |-> 0, extracts |-> 0]

InitGoal == \E env \in EnvValues, url \in BOOLEAN : goal = NewGoal(env, url)

\* a throw that skips the finally of executeGoal
GoalThrownSessionKept(g) ==
  [g EXCEPT !.pc = "done", !.outcome = "thrown",
            !.message = "Browser operation failed", !.exit = "error"]

\* what every throw inside executeGoal's try ends in: the catch wraps the
\* error, the finally closes the session, the dispatch throws
GoalThrown(g) ==
  [g EXCEPT !.pc = "done", !.session = "closed", !.outcome = "thrown",
            !.message = "Browser operation failed", !.exit = "error"]

\* ensureBrowsersInstalled succeeds; the Stagehand instance is created and
\* init() is called
GInstallOk ==
  /\ goal.pc = "install"
  /\ goal' = [goal EXCEPT !.pc = "init", !.session = "created"]
  /\ UNCHANGED <<agentVars, memVars, optVars, benchVars, restVars>>

\* ensureBrowsersInstalled throws, before any session exists
GInstallFail ==
  /\ goal.pc = "install"
  /\ goal' = [goal EXCEPT !.pc = "done", !.outcome = "thrown",
                          !.message = "Failed to install required browsers",
                          !.exit = "error"]
  /\ UNCHANGED <<agentVars, memVars, optVars, benchVars, restVars>>

\* init() returns; the first step, GOTO, is run without asking the oracle
GInitOk ==
  /\ goal.pc = "init"
  /\ goal' = [goal EXCEPT !.pc = "goto", !.session = "open"]
  /\ UNCHANGED <<agentVars, memVars, optVars, benchVars, restVars>>

GInitFail ==
  /\ goal.pc = "init"
  /\ goal' = GoalThrown(goal)
  /\ UNCHANGED <<agentVars, memVars, optVars, benchVars, restVars>>

\* page.goto(providedUrl) returns (it cannot without a URL)
GGotoOk ==
  /\ goal.pc = "goto"
  /\ goal.url
  /\ goal' = [goal EXCEPT !.pc = "top", !.stepCount = 1, !.gotos = 1]
  /\ UNCHANGED <<agentVars, memVars, optVars, benchVars, restVars>>

\* page.goto throws: runAtomicStep closes the session and rethrows
GGotoFail ==
  /\ goal.pc = "goto"
  /\ goal' = GoalThrown([goal EXCEPT !.gotos = 1])
  /\ UNCHANGED <<agentVars, memVars, optVars, benchVars, restVars>>

\* top of the while (true): stepCount++, and the budget is exceeded
GTopBudget ==
  /\ goal.pc = "top"
  /\ Gt(Incr(goal.stepCount), goal.MAX_STEPS)
  /\ goal' = [goal EXCEPT !.pc = "summary", !.stepCount = Incr(goal.stepCount),
                          !.exit = "budget"]
  /\ UNCHANGED <<agentVars, memVars, optVars, benchVars, restVars>>

\* top of the while (true): stepCount++, within budget, sendPrompt is called
GTopAsk ==
  /\ goal.pc = "top"
  /\ ~Gt(Incr(goal.stepCount), goal.MAX_STEPS)
  /\ goal' = [goal EXCEPT !.pc = "decide", !.stepCount = Incr(goal.stepCount)]
  /\ UNCHANGED <<agentVars, memVars, optVars, benchVars, restVars>>

\* the record of the oracle's answers kept for the properties
Noted(g, d) ==
  [g EXCEPT !.decisions = Incr(g.decisions),
            !.first = IF g.decisions = 0 THEN d ELSE g.first,
            !.allSame = g.allSame /\ (g.decisions = 0 \/ d = g.first),
            !.run = IF g.decisions > 0 /\ d = g.last
                    THEN (IF g.run < 4 THEN g.run + 1 ELSE 4) ELSE 1,
            !.last = d,
            !.cur = d,
            !.extracts = IF d.method = "EXTRACT" THEN Incr(g.extracts)
                         ELSE g.extracts]

\* the loop detection block, then either break or the call of runAtomicStep
GoalDetect(g) ==
  LET r == LoopDetection(g.similarStepsCount, g.lastAction, ActionKey(g.cur))
      h == [g EXCEPT !.similarStepsCount = r.count, !.lastAction = r.last]
  IN IF r.detected THEN [h EXCEPT !.pc = "summary", !.exit = "loop"]
     ELSE [h EXCEPT !.pc = "act"]

\* sendPrompt returns the oracle's decision d
GDecide ==
  /\ goal.pc = "decide"
  /\ \E d \in Decisions :
       /\ d.method \in {"EXTRACT", "HTML", "AI_HANDLE"}
            => Len(goal.results) < MaxResults
       /\ LET g == Noted(goal, d)
          IN goal' =
               CASE d.method = "CLOSE" ->
                      [g EXCEPT !.pc = "summary", !.session = "closed",
                                !.goalCompleted = TRUE, !.exit = "close"]
                 [] d.method = "AI_HANDLE" -> [g EXCEPT !.pc = "ai"]
                 [] OTHER -> GoalDetect(g)
  /\ UNCHANGED <<agentVars, memVars, optVars, benchVars, restVars>>

\* sendPrompt throws
GDecideFail ==
  /\ goal.pc = "decide"
  /\ goal' = GoalThrown(goal)
  /\ UNCHANGED <<agentVars, memVars, optVars, benchVars, restVars>>

\* processWithAI returns: the answer is recorded and the loop continues
GAiOk ==
  /\ goal.pc = "ai"
  /\ goal' = [goal EXCEPT !.pc = "top",
                          !.results = Append(@, "ai_analysis")]
  /\ UNCHANGED <<agentVars, memVars, optVars, benchVars, restVars>>

\* processWithAI throws: the step falls through to loop detection and to
\* runAtomicStep, which knows no AI_HANDLE and throws
GAiFail ==
  /\ goal.pc = "ai"
  /\ goal' = LET g == GoalDetect(goal)
             IN IF g.pc = "summary" THEN g ELSE GoalThrown(g)
  /\ UNCHANGED <<agentVars, memVars, optVars, benchVars, restVars>>

\* runAtomicStep returns: EXTRACT and HTML results are recorded
GActOk ==
  /\ goal.pc = "act"
  /\ goal' = [goal EXCEPT !.pc = "top",
                          !.results = IF goal.cur.method \in {"EXTRACT", "HTML"}
                                      THEN Append(@, ExtractedType(goal.cur.method))
                                      ELSE @]
  /\ UNCHANGED <<agentVars, memVars, optVars, benchVars, restVars>>

\* runAtomicStep throws: the session is closed and the error propagates
GActFail ==
  /\ goal.pc = "act"
  /\ goal' = GoalThrown(goal)
  /\ UNCHANGED <<agentVars, memVars, optVars, benchVars, restVars>>

\* generateResultsSummary returns: the BrowserResult is returned, the
\* finally closes the session
GSummaryOk ==
  /\ goal.pc = "summary"
  /\ goal' = [goal EXCEPT !.pc = "done", !.session = "closed",
                          !.outcome = "returned", !.message = GoalMessage(goal),
                          !.totalSteps = goal.stepCount]
  /\ UNCHANGED <<agentVars, memVars, optVars, benchVars, restVars>>

\* generateResultsSummary throws
GSummaryFail ==
  /\ goal.pc = "summary"
  /\ goal' = [GoalThrown(goal) EXCEPT !.exit = goal.exit]
  /\ UNCHANGED <<agentVars, memVars, optVars, benchVars, restVars>>

NextGoal ==
  \/ GInstallOk \/ GInstallFail \/ GInitOk \/ GInitFail \/ GGotoOk \/ GGotoFail
  \/ GTopBudget \/ GTopAsk \/ GDecide \/ GDecideFail \/ GAiOk \/ GAiFail
  \/ GActOk \/ GActFail \/ GSummaryOk \/ GSummaryFail

\* ================================== BrowserTool with the shared session
Dispatches == 1..MaxDispatches
Tools == {1, 2}
OptDefaultMaxSteps == 5

\* the parameters of a behaviour: the environment and what callers and the
\* oracle may choose
InitShared(envs, repertoire, urls, simples, tools) ==
  \E env \in envs, keep \in BOOLEAN :
    shared = [browserInstance |-> 0, isBrowserInitializing |-> FALSE,
              initPromise |-> 0, sess |-> <<>>, keepAlive |-> keep, env |-> env,
              repertoire |-> repertoire, urls |-> urls, simples |-> simples,
              tools |-> tools]

NewDispatch ==
  [tool |-> 1, url |-> FALSE, simple |-> FALSE, pc |-> "idle", browser |-> 0,
   waitOn |-> 0, MAX_STEPS |-> 0, stepCount |-> 0, similarStepsCount |-> 0,
   lastAction |-> NoAction, results |-> <<>>, cur |-> NoDecision,
   outcome |-> "pending", message |-> "", totalSteps |-> 0, exit |-> "none",
   closingOf |-> 0,
   decisions |-> 0, first |-> NoDecision, allSame |-> TRUE, run |-> 0,
   last |-> NoDecision]

\* the dispatches in `active` are made, the others never are
InitOpt(active) ==
  /\ tool = [t \in Tools |-> [browserInstalled |-> FALSE, activeConnections |-> 0]]
  /\ disp = [d \in Dispatches |->
               IF d \in active THEN NewDispatch ELSE [NewDispatch EXCEPT !.pc = "off"]]
  /\ pageTrace = <<>>

\* the message of the BrowserResult executeWithOptimizedSteps returns
OptMessage(r) ==
  IF Ge(r.stepCount, r.MAX_STEPS)
  THEN "Task terminated after reaching maximum steps"
  ELSE IF r.similarStepsCount >= MAX_SIMILAR_STEPS
       THEN "Task terminated after detecting repetitive actions"
  ELSE "Task completed successfully"

\* the while test and, when it holds, stepCount++ and the call of determineNextStep
OptLoopTop(r) ==
  IF Lt(r.stepCount, r.MAX_STEPS)
  THEN [r EXCEPT !.stepCount = Incr(r.stepCount), !.pc = "decide"]
  ELSE [r EXCEPT !.pc = "summary",
                 !.exit = IF r.exit = "none" THEN "budget" ELSE r.exit]

\* a break out of the while loop
OptBreak(r, why) == [r EXCEPT !.pc = "summary", !.exit = why]

\* the catch of executeWithOptimizedSteps: an Error result is returned
OptErrorResult(r) ==
  [r EXCEPT !.pc = "finally", !.outcome = "returned", !.message = "Error",
            !.totalSteps = r.stepCount, !.exit = "error"]

\* whether a page call on session s can still succeed
Usable(s) == s # 0 /\ shared.sess[s] \in {"open", "closing"}

\* execute(args) is called on a BrowserTool instance
OStart(d) ==
  /\ disp[d].pc = "idle"
  /\ \E t \in shared.tools, url \in shared.urls, simple \in shared.simples :
       disp' = [disp EXCEPT ![d] = [@ EXCEPT !.tool = t, !.url = url,
                                             !.simple = simple, !.pc = "install"]]
  /\ UNCHANGED <<shared, tool, pageTrace, agentVars, memVars, goalVars, benchVars, restVars>>

\* ensureBrowsersInstalled returns; activeConnections++ and the synchronous
\* part of getBrowserInstance
OInstallOk(d) ==
  /\ disp[d].pc = "install"
  /\ LET t == disp[d].tool
         new == Len(shared.sess) + 1
     IN /\ tool' = [tool EXCEPT ![t].browserInstalled = TRUE,
                                ![t].activeConnections = @ + 1]
        /\ IF shared.browserInstance # 0
           THEN /\ disp' = [disp EXCEPT ![d].pc = "awaitBrowser",
                                        ![d].browser = shared.browserInstance]
                /\ UNCHANGED shared
           ELSE IF shared.isBrowserInitializing /\ shared.initPromise # 0
           THEN /\ disp' = [disp EXCEPT ![d].pc = "awaitBrowser",
                                        ![d].waitOn = shared.initPromise]
                /\ UNCHANGED shared
           ELSE /\ disp' = [disp EXCEPT ![d].pc = "awaitBrowser", ![d].waitOn = new]
                /\ shared' = [shared EXCEPT !.isBrowserInitializing = TRUE,
                                            !.initPromise = new,
                                            !.sess = Append(@, "initializing")]
  /\ UNCHANGED <<pageTrace, agentVars, memVars, goalVars, benchVars, restVars>>

\* ensureBrowsersInstalled throws, before the try of execute; it cannot once
\* the instance has seen a browser installed
OInstallFail(d) ==
  /\ disp[d].pc = "install"
  /\ ~tool[disp[d].tool].browserInstalled
  /\ disp' = [disp EXCEPT ![d].pc = "done", ![d].outcome = "thrown",
                          ![d].message = "Failed to install required browsers",
                          ![d].exit = "error"]
  /\ UNCHANGED <<shared, tool, pageTrace, agentVars, memVars, goalVars, benchVars, restVars>>

\* stagehand.init() of session s returns
InitOk(s) ==
  /\ s \in 1..Len(shared.sess)
  /\ shared.sess[s] = "initializing"
  /\ shared' = [shared EXCEPT !.sess[s] = "open", !.browserInstance = s]
  /\ UNCHANGED <<tool, disp, pageTrace, agentVars, memVars, goalVars, benchVars, restVars>>

\* stagehand.init() of session s throws: the flags are reset
InitFail(s) ==
  /\ s \in 1..Len(shared.sess)
  /\ shared.sess[s] = "initializing"
  /\ shared' = [shared EXCEPT !.sess[s] = "failed", !.isBrowserInitializing = FALSE,
                              !.initPromise = 0]
  /\ UNCHANGED <<tool, disp, pageTrace, agentVars, memVars, goalVars, benchVars, restVars>>

\* the start of executeWithOptimizedSteps, up to its first awaited call
OptEnter(r, b) ==
  LET e == [r EXCEPT !.browser = b, !.waitOn = 0,
                     !.MAX_STEPS = ParseMaxSteps(shared.env, OptDefaultMaxSteps)]
  IN IF e.url THEN [e EXCEPT !.pc = "goto"] ELSE OptLoopTop(e)

\* getBrowserInstance resolves for dispatch d
OGotBrowser(d) ==
  /\ disp[d].pc = "awaitBrowser"
  /\ \/ /\ disp[d].waitOn = 0
        /\ disp' = [disp EXCEPT ![d] = OptEnter(@, disp[d].browser)]
     \/ /\ disp[d].waitOn # 0
        /\ shared.sess[disp[d].waitOn] \notin {"initializing", "failed"}
        /\ disp' = [disp EXCEPT ![d] = OptEnter(@, disp[d].waitOn)]
  /\ UNCHANGED <<shared, tool, pageTrace, agentVars, memVars, goalVars, benchVars, restVars>>

\* the awaited initPromise rejects: the error leaves execute through finally
OInitRejected(d) ==
  /\ disp[d].pc = "awaitBrowser"
  /\ disp[d].waitOn # 0
  /\ shared.sess[disp[d].waitOn] = "failed"
  /\ disp' = [disp EXCEPT ![d].pc = "finally", ![d].outcome = "thrown",
                          ![d].message = "init failed", ![d].exit = "error"]
  /\ UNCHANGED <<shared, tool, pageTrace, agentVars, memVars, goalVars, benchVars, restVars>>

\* runAtomicStep GOTO returns
OGotoOk(d) ==
  /\ disp[d].pc = "goto"
  /\ Usable(disp[d].browser)
  /\ pageTrace' = Append(pageTrace, [d |-> d, s |-> disp[d].browser])
  /\ disp' = [disp EXCEPT ![d] =
                LET r == [@ EXCEPT !.stepCount = 1]
                IN IF r.simple THEN [r EXCEPT !.pc = "quick"] ELSE OptLoopTop(r)]
  /\ UNCHANGED <<shared, tool, agentVars, memVars, goalVars, benchVars, restVars>>

\* runAtomicStep GOTO throws: the outer catch returns an Error result
OGotoFail(d) ==
  /\ disp[d].pc = "goto"
  /\ disp' = [disp EXCEPT ![d] = OptErrorResult(@)]
  /\ UNCHANGED <<shared, tool, pageTrace, agentVars, memVars, goalVars, benchVars, restVars>>

\* quickExtract returns a short answer
OQuickHit(d) ==
  /\ disp[d].pc = "quick"
  /\ Usable(disp[d].browser)
  /\ disp' = [disp EXCEPT ![d].pc = "quickSummary", ![d].results = <<"extract">>]
  /\ UNCHANGED <<shared, tool, pageTrace, agentVars, memVars, goalVars, benchVars, restVars>>

\* quickExtract returns null (no usable answer, or an error it swallowed)
OQuickMiss(d) ==
  /\ disp[d].pc = "quick"
  /\ disp' = [disp EXCEPT ![d] = OptLoopTop(@)]
  /\ UNCHANGED <<shared, tool, pageTrace, agentVars, memVars, goalVars, benchVars, restVars>>

\* generateSummary returns on the fast path: the result is returned
OQuickSummaryOk(d) ==
  /\ disp[d].pc = "quickSummary"
  /\ disp' = [disp EXCEPT ![d].pc = "finally", ![d].outcome = "returned",
                ![d].message = "Task completed successfully with optimized extraction",
                ![d].totalSteps = 1, ![d].exit = "quick"]
  /\ UNCHANGED <<shared, tool, pageTrace, agentVars, memVars, goalVars, benchVars, restVars>>

OQuickSummaryFail(d) ==
  /\ disp[d].pc = "quickSummary"
  /\ disp' = [disp EXCEPT ![d] = OptErrorResult(@)]
  /\ UNCHANGED <<shared, tool, pageTrace, agentVars, memVars, goalVars, benchVars, restVars>>

\* the loop detection block, then either break or the call of runAtomicStep
OptDetect(r) ==
  LET x == LoopDetection(r.similarStepsCount, r.lastAction, ActionKey(r.cur))
      h == [r EXCEPT !.similarStepsCount = x.count, !.lastAction = x.last]
  IN IF x.detected THEN OptBreak(h, "loop") ELSE [h EXCEPT !.pc = "act"]

\* determineNextStep returns the oracle's decision
ODecide(d) ==
  /\ disp[d].pc = "decide"
  /\ \E dec \in shared.repertoire :
       /\ dec.method \in {"EXTRACT", "HTML", "AI_HANDLE"}
            => Len(disp[d].results) < MaxResults
       /\ disp' = [disp EXCEPT ![d] =
                     LET r == Noted(@, dec)
                     IN CASE dec.method = "CLOSE" -> OptBreak(r, "close")
                          [] dec.method = "AI_HANDLE" -> [r EXCEPT !.pc = "ai"]
                          [] OTHER -> OptDetect(r)]
  /\ UNCHANGED <<shared, tool, pageTrace, agentVars, memVars, goalVars, benchVars, restVars>>

\* determineNextStep throws: the outer catch returns an Error result
ODecideFail(d) ==
  /\ disp[d].pc = "decide"
  /\ disp' = [disp EXCEPT ![d] = OptErrorResult(@)]
  /\ UNCHANGED <<shared, tool, pageTrace, agentVars, memVars, goalVars, benchVars, restVars>>

\* processWithAI returns: the answer is recorded, continue
OAiOk(d) ==
  /\ disp[d].pc = "ai"
  /\ disp' = [disp EXCEPT ![d] =
                OptLoopTop([@ EXCEPT !.results = Append(@, "ai_analysis")])]
  /\ UNCHANGED <<shared, tool, pageTrace, agentVars, memVars, goalVars, benchVars, restVars>>

\* processWithAI throws: the step falls through to loop detection and to
\* runAtomicStep, whose "Unsupported method" error the loop swallows
OAiFail(d) ==
  /\ disp[d].pc = "ai"
  /\ disp' = [disp EXCEPT ![d] =
                LET r == OptDetect(@)
                IN IF r.pc = "summary" THEN r ELSE OptLoopTop(r)]
  /\ UNCHANGED <<shared, tool, pageTrace, agentVars, memVars, goalVars, benchVars, restVars>>

\* runAtomicStep returns: EXTRACT and HTML results are recorded, and with two
\* or more results isDataSufficient asks the oracle
OActOk(d) ==
  /\ disp[d].pc = "act"
  /\ Usable(disp[d].browser)
  /\ pageTrace' = Append(pageTrace, [d |-> d, s |-> disp[d].browser])
  /\ disp' = [disp EXCEPT ![d] =
                LET r == @
                IN IF r.cur.method \in {"EXTRACT", "HTML"}
                   THEN LET x == [r EXCEPT !.results =
                                     Append(@, ExtractedType(r.cur.method))]
                        IN IF Len(x.results) >= 2
                           THEN [x EXCEPT !.pc = "sufficient"]
                           ELSE OptLoopTop(x)
                   ELSE OptLoopTop(r)]
  /\ UNCHANGED <<shared, tool, agentVars, memVars, goalVars, benchVars, restVars>>

\* runAtomicStep throws: the error is logged and the loop goes on
OActFail(d) ==
  /\ disp[d].pc = "act"
  /\ disp' = [disp EXCEPT ![d] = OptLoopTop(@)]
  /\ UNCHANGED <<shared, tool, pageTrace, agentVars, memVars, goalVars, benchVars, restVars>>

\* isDataSufficient answers yes: break
OSufficientYes(d) ==
  /\ disp[d].pc = "sufficient"
  /\ disp' = [disp EXCEPT ![d] = OptBreak(@, "sufficient")]
  /\ UNCHANGED <<shared, tool, pageTrace, agentVars, memVars, goalVars, benchVars, restVars>>

\* isDataSufficient answers no, or throws into the catch of the step
OSufficientNo(d) ==
  /\ disp[d].pc = "sufficient"
  /\ disp' = [disp EXCEPT ![d] = OptLoopTop(@)]
  /\ UNCHANGED <<shared, tool, pageTrace, agentVars, memVars, goalVars, benchVars, restVars>>

\* generateSummary returns: the BrowserResult is returned
OSummaryOk(d) ==
  /\ disp[d].pc = "summary"
  /\ disp' = [disp EXCEPT ![d].pc = "finally", ![d].outcome = "returned",
                          ![d].message = OptMessage(disp[d]),
                          ![d].totalSteps = disp[d].stepCount]
  /\ UNCHANGED <<shared, tool, pageTrace, agentVars, memVars, goalVars, benchVars, restVars>>

\* generateSummary (called with results) throws: an Error result is returned
OSummaryFail(d) ==
  /\ disp[d].pc = "summary"
  /\ Len(disp[d].results) > 0
  /\ disp' = [disp EXCEPT ![d] = [OptErrorResult(@) EXCEPT !.exit = disp[d].exit]]
  /\ UNCHANGED <<shared, tool, pageTrace, agentVars, memVars, goalVars, benchVars, restVars>>

\* this.activeConnections === 0 && process.env.KEEP_BROWSER_ALIVE !== 'true'
ShouldClose(count, keepAlive) == count = 0 /\ ~keepAlive

\* a finally that leaves the counter as it is
ReleasedNever(count) == count
\* this.activeConnections--
Released(count) == count - 1

\* the finally of execute: activeConnections--, and closeBrowser up to its
\* await of browserInstance.close()
OFinally(d) ==
  /\ disp[d].pc = "finally"
  /\ LET t == disp[d].tool
         left == Released(tool[t].activeConnections)
         b == shared.browserInstance
     IN /\ tool' = [tool EXCEPT ![t].activeConnections = left]
        /\ IF ShouldClose(left, shared.keepAlive) /\ b # 0
           THEN /\ shared' = [shared EXCEPT !.sess[b] = "closing"]
                /\ disp' = [disp EXCEPT ![d].pc = "closing", ![d].closingOf = b]
           ELSE /\ disp' = [disp EXCEPT ![d].pc = "done"]
                /\ UNCHANGED shared
  /\ UNCHANGED <<pageTrace, agentVars, memVars, goalVars, benchVars, restVars>>

\* browserInstance.close() returns or throws: the finally of closeBrowser
\* resets the static state, and execute returns or throws
OCloseDone(d) ==
  /\ disp[d].pc = "closing"
  /\ shared' = [shared EXCEPT !.sess[disp[d].closingOf] = "closed",
                              !.browserInstance = 0,
                              !.isBrowserInitializing = FALSE,
                              !.initPromise = 0]
  /\ disp' = [disp EXCEPT ![d].pc = "done"]
  /\ UNCHANGED <<tool, pageTrace, agentVars, memVars, goalVars, benchVars, restVars>>

NextOpt ==
  \/ \E d \in Dispatches :
       \/ OStart(d) \/ OInstallOk(d) \/ OInstallFail(d) \/ OGotBrowser(d)
       \/ OInitRejected(d) \/ OGotoOk(d) \/ OGotoFail(d) \/ OQuickHit(d)
       \/ OQuickMiss(d) \/ OQuickSummaryOk(d) \/ OQuickSummaryFail(d)
       \/ ODecide(d) \/ ODecideFail(d) \/ OAiOk(d) \/ OAiFail(d) \/ OActOk(d)
       \/ OActFail(d) \/ OSufficientYes(d) \/ OSufficientNo(d) \/ OSummaryOk(d)
       \/ OSummaryFail(d) \/ OFinally(d) \/ OCloseDone(d)
  \/ \E s \in 1..MaxDispatches : InitOk(s) \/ InitFail(s)

\* ============================================== benchmark: isAnswerCorrect
\* answers and ground truths: a number written in decimal, or a string
Num(n) == [kind |-> "num", n |-> n, s |-> ""]
Str(s) == [kind |-> "str", n |-> 0, s |-> s]
BenchNumbers == (100 - MaxSpread)..(100 + MaxSpread)
GroundTruths == {Num(n) : n \in BenchNumbers} \cup {Str("paris")}
ModelAnswers ==
  {Num(n) : n \in BenchNumbers} \cup {Str(""), Str("paris"), Str("Paris "), Str("rome")}

\* the value of Infinity, which no number scored equals
Infinity == 0 - 1

\* isFloat(str)
IsFloat(x) == x.kind = "num"

\* normalizeNumberStr(numberStr): the number, or Infinity when it is none
NormalizeNumberStr(x) == IF x.kind = "num" THEN x.n ELSE Infinity

\* normalizeStr(inputStr): white space and punctuation removed, lower case
NormalizeStr(x) ==
  IF x.kind = "num" THEN <<"num", x.n>>
  ELSE <<"str", IF x.s = "Paris " THEN "paris" ELSE x.s>>

WithinOnePercent(groundTruth, modelAnswer) ==
  LET diff == IF modelAnswer.n >= groundTruth.n THEN modelAnswer.n - groundTruth.n
              ELSE groundTruth.n - modelAnswer.n
  IN modelAnswer.kind = "num" /\ diff * 100 <= groundTruth.n
\* normalizedAnswer === parseFloat(groundTruth)
NumbersAgree(groundTruth, modelAnswer) ==
  NormalizeNumberStr(modelAnswer) = groundTruth.n

\* isAnswerCorrect(groundTruth, modelAnswer), ground truths without lists
IsAnswerCorrect(groundTruth, modelAnswer) ==
  IF modelAnswer = Str("") THEN FALSE
  ELSE IF IsFloat(groundTruth) THEN NumbersAgree(groundTruth, modelAnswer)
  ELSE NormalizeStr(modelAnswer) = NormalizeStr(groundTruth)

InitBench ==
  \E g \in GroundTruths, a \in ModelAnswers :
    bench = [groundTruth |-> g, modelAnswer |-> a, pc |-> "ready",
             isCorrect |-> FALSE]

\* one task of the benchmark is scored
Score ==
  /\ bench.pc = "ready"
  /\ bench' = [bench EXCEPT !.pc = "scored",
                 !.isCorrect = IsAnswerCorrect(bench.groundTruth, bench.modelAnswer)]
  /\ UNCHANGED <<agentVars, memVars, goalVars, optVars, restVars>>

\* ================================================= the two step budgets
\* Number(process.env.MAX_STEPS)
EnvNumber(env) ==
  CASE env \in {"unset", "abc"} -> NaN
    [] env = "0" -> 0
    [] env = "2" -> 2
    [] env = "3" -> 3
    [] env = "5" -> 5

\* a configuration of one run: the maxSteps option and process.env.MAX_STEPS
Configs == [opt : 0..MaxOptSteps, env : EnvValues]

\* this.maxSteps after the constructor: agent.ts takes options.maxSteps,
\* part_009 takes Number(process.env.MAX_STEPS); both fall back to 20
OuterBudget(orch, cfg) ==
  IF orch = "agent.ts"
  THEN ConstructedMaxSteps(cfg.opt)
  ELSE LET n == EnvNumber(cfg.env)
       IN IF n = NaN \/ n = 0 THEN DefaultMaxSteps ELSE n

\* const MAX_STEPS = parseInt(process.env.MAX_STEPS || '10') of executeGoal
InnerBudget(cfg) == ParseMaxSteps(cfg.env, GoalDefaultMaxSteps)

\* two runs of one orchestrator whose configurations differ in one setting
InitBudget ==
  \E orch \in Orchestrators, a \in Configs, b \in Configs :
    /\ (a.opt # b.opt) # (a.env # b.env)
    /\ budget = [pc |-> "new", orchestrator |-> orch, one |-> a, other |-> b,
                 outer |-> <<0, 0>>, inner |-> <<0, 0>>]

\* both runs construct their Agent and start a browser dispatch
Construct ==
  /\ budget.pc = "new"
  /\ budget' = [budget EXCEPT
       !.pc = "built",
       !.outer = <<OuterBudget(budget.orchestrator, budget.one),
                   OuterBudget(budget.orchestrator, budget.other)>>,
       !.inner = <<InnerBudget(budget.one), InnerBudget(budget.other)>>]
  /\ UNCHANGED <<agentVars, memVars, goalVars, optVars, benchVars, terminal, todo>>

\* ================================================ the terminal capability
\* the pieces a command is written with: a command is a sequence of them,
\* and a piece contains no other piece
Fragments ==
  {"ls", "echo", "rm -rf", "RM -RF", "chmod -R", "chmod -r", "mkfs", "MkFs"}

\* String.prototype.toLowerCase, piece by piece
ToLowerCase(f) ==
  CASE f = "RM -RF" -> "rm -rf"
    [] f = "chmod -R" -> "chmod -r"
    [] f = "MkFs" -> "mkfs"
    [] OTHER -> f

\* const dangerousCommands = [...], with the patterns the fragments can match
DangerousCommands == {"rm -rf", "mkfs", "chmod -R"}

\* commandStr.includes(cmd)
Includes(commandStr, cmd) == \E i \in 1..Len(commandStr) : commandStr[i] = cmd

\* dangerousCommands.some((cmd) => commandStr.includes(cmd)), where
\* commandStr = params.command.toLowerCase()
IsBlocked(command) ==
  LET commandStr == [i \in 1..Len(command) |-> ToLowerCase(command[i])]
  IN \E cmd \in DangerousCommands : Includes(commandStr, cmd)

\* terminal.execute is called with a command and a working directory
InitTerminal ==
  \E command \in SeqUpTo(Fragments, MaxWords), allowed \in BOOLEAN :
    terminal = [command |-> command, dirAllowed |-> allowed, pc |-> "called",
                success |-> FALSE, error |-> ""]

\* the safety check finds a dangerous pattern: an error result is returned
TerminalBlocked ==
  /\ terminal.pc = "called"
  /\ IsBlocked(terminal.command)
  /\ terminal' = [terminal EXCEPT !.pc = "returned",
                     !.error = "Potentially dangerous command blocked for safety"]
  /\ UNCHANGED <<agentVars, memVars, goalVars, optVars, benchVars, budget, todo>>

\* the working directory is outside the safe boundaries
TerminalDirRejected ==
  /\ terminal.pc = "called"
  /\ ~IsBlocked(terminal.command)
  /\ ~terminal.dirAllowed
  /\ terminal' = [terminal EXCEPT !.pc = "returned",
                                  !.error = "Working directory not allowed"]
  /\ UNCHANGED <<agentVars, memVars, goalVars, optVars, benchVars, budget, todo>>

\* this.tools.terminal.execute is called: the shell process is spawned
TerminalSpawn ==
  /\ terminal.pc = "called"
  /\ ~IsBlocked(terminal.command)
  /\ terminal.dirAllowed
  /\ terminal' = [terminal EXCEPT !.pc = "spawned"]
  /\ UNCHANGED <<agentVars, memVars, goalVars, optVars, benchVars, budget, todo>>

\* the process ends, or the tool throws: the result is returned
TerminalReturn ==
  /\ terminal.pc = "spawned"
  /\ \E ok \in BOOLEAN :
       terminal' = [terminal EXCEPT !.pc = "ran", !.success = ok,
                      !.error = IF ok THEN "" ELSE "Terminal execution error"]
  /\ UNCHANGED <<agentVars, memVars, goalVars, optVars, benchVars, budget, todo>>

\* ================================================= todo.md and subtasks
\* the lines of todo.md: a subtask line `${num}. [x] ${desc}` or `[ ]`, or a
\* line of other text; a description is the rank of its subtask's creation
SubtaskLine(num, checked, desc) ==
  [kind |-> "subtask", num |-> num, checked |-> checked, desc |-> desc]
TextLine(text) == [kind |-> "text", num |-> 0, checked |-> FALSE, desc |-> text]
\* lines[i].match(/^\d+\. \[[ x]\] /)
IsSubtaskLine(line) == line.kind = "subtask"

\* lines.splice(at, 0, line), at counted from 0
Splice(lines, at, line) ==
  LET k == IF at > Len(lines) THEN Len(lines) ELSE at
  IN SubSeq(lines, 1, k) \o <<line>> \o SubSeq(lines, k + 1, Len(lines))

\* createTodoMd: the content written, split at its line ends
CreateTodoMd(n) ==
  <<TextLine("# Task"), TextLine(""), TextLine("Created"), TextLine(""),
    TextLine("## Subtasks"), TextLine("")>>
    \o [i \in 1..n |-> SubtaskLine(i, FALSE, i)]
    \o <<TextLine("")>>

\* addSubtask: subtasksIndex, counted from 0 (-1 when there is no section)
SubtasksIndex(lines) ==
  LET at == {i \in 1..Len(lines) : lines[i] = TextLine("## Subtasks")}
  IN IF at = {} THEN 0 - 1
     ELSE (CHOOSE i \in at : \A j \in at : j <= i) - 1

\* addSubtask: subtaskCount, the subtask lines below the first section line
SubtaskCount(lines) ==
  Cardinality({i \in 1..Len(lines) :
                 /\ IsSubtaskLine(lines[i])
                 /\ \E h \in 1..(i - 1) : lines[h] = TextLine("## Subtasks")})

\* addSubtask: the lines written back
AddSubtaskLines(lines, desc) ==
  Splice(lines, SubtasksIndex(lines) + SubtaskCount(lines) + 1,
         SubtaskLine(SubtaskCount(lines) + 1, FALSE, desc))

\* updateSubtaskStatus: the first line numbered subtaskIndex gets the mark
UpdateSubtaskStatus(lines, subtaskIndex, status) ==
  LET at == {i \in 1..Len(lines) :
               IsSubtaskLine(lines[i]) /\ lines[i].num = subtaskIndex}
  IN IF at = {} THEN lines
     ELSE LET i == CHOOSE i \in at : \A j \in at : i <= j
          IN [lines EXCEPT ![i].checked = (status = "completed")]

\* this.subtasks.find((st) => st.id === id), then subtask.status = 'completed'
MarkCompleted(subtasks, id) ==
  LET at == {i \in 1..Len(subtasks) : subtasks[i].id = id}
  IN IF at = {} THEN subtasks
     ELSE LET i == CHOOSE i \in at : \A j \in at : i <= j
          IN [subtasks EXCEPT ![i].status = "completed"]

InitTodo ==
  todo = [pc |-> "new", lines |-> <<>>, subtasks |-> <<>>, created |-> 0,
          ops |-> 0, adds |-> 0, others |-> 0]

\* initialize(): the plan has n subtasks, createTodoMd writes them, all
\* pending, and this.subtasks becomes the plan
TodoCreate ==
  /\ todo.pc = "new"
  /\ \E n \in 0..MaxSubtasks :
       todo' = [todo EXCEPT
         !.pc = "ready",
         !.lines = CreateTodoMd(n),
         !.subtasks = [i \in 1..n |-> [id |-> i, status |-> "pending", desc |-> i]],
         !.created = n]
  /\ UNCHANGED <<agentVars, memVars, goalVars, optVars, benchVars, budget, terminal>>

\* todoOperations.execute({ operation: 'addSubtask', description })
TodoAddSubtask ==
  /\ todo.pc = "ready"
  /\ todo.ops < MaxTodoOps
  /\ LET desc == todo.created + 1
     IN todo' = [todo EXCEPT
          !.lines = AddSubtaskLines(todo.lines, desc),
          !.subtasks = Append(@, [id |-> SubtaskCount(todo.lines) + 1,
                                  status |-> "pending", desc |-> desc]),
          !.created = desc,
          !.ops = @ + 1,
          !.adds = @ + 1]
  /\ UNCHANGED <<agentVars, memVars, goalVars, optVars, benchVars, budget, terminal>>

\* todoOperations.execute({ operation: 'updateSubtask', subtaskId, status })
TodoUpdateSubtask ==
  /\ todo.pc = "ready"
  /\ todo.ops < MaxTodoOps
  /\ \E subtaskId \in 1..(MaxSubtasks + MaxTodoOps), status \in {"pending", "completed"} :
       todo' = [todo EXCEPT
         !.lines = UpdateSubtaskStatus(todo.lines, subtaskId, status),
         !.subtasks = IF status = "completed" THEN MarkCompleted(@, subtaskId) ELSE @,
         !.ops = @ + 1,
         !.others = @ + 1]
  /\ UNCHANGED <<agentVars, memVars, goalVars, optVars, benchVars, budget, terminal>>

\* a step with a subtaskId completes: executeStep marks the subtask it finds
\* and updates todo.md, and run() updates todo.md once more
TodoStepCompleted ==
  /\ todo.pc = "ready"
  /\ todo.ops < MaxTodoOps
  /\ \E subtaskId \in 1..(MaxSubtasks + MaxTodoOps) :
       todo' = [todo EXCEPT
         !.lines = UpdateSubtaskStatus(todo.lines, subtaskId, "completed"),
         !.subtasks = MarkCompleted(@, subtaskId),
         !.ops = @ + 1,
         !.others = @ + 1]
  /\ UNCHANGED <<agentVars, memVars, goalVars, optVars, benchVars, budget, terminal>>

\* ========================================================= specifications
Next ==
  \/ LoopEnter \/ LoopExhausted \/ PlanComplete \/ PlanNext \/ PlanFail
  \/ ExecReturn \/ ExecThrow \/ StartReport \/ FinishNoReport
  \/ ReportReturn \/ ReportThrow

\* the components that take no step in a specification stay as constructed
IdleAgent == InitAgent /\ optMaxSteps = 1 /\ orchestrator = "agent.ts"
IdleGoal == InitGoal /\ goal.env = "unset" /\ goal.url
OffGoal == goal = [NewGoal("unset", TRUE) EXCEPT !.pc = "off"]
IdleBench == InitBench /\ bench.groundTruth = Num(100) /\ bench.modelAnswer = Num(100)
IdleBudget ==
  /\ InitBudget
  /\ budget.orchestrator = "agent.ts"
  /\ budget.one = [opt |-> 0, env |-> "unset"]
  /\ budget.other = [opt |-> 1, env |-> "unset"]
IdleTerminal == InitTerminal /\ terminal.command = <<>> /\ terminal.dirAllowed
IdleRest == IdleBudget /\ IdleTerminal /\ InitTodo
IdleOpt ==
  /\ InitShared({"unset"}, {}, {TRUE}, {FALSE}, {1})
  /\ ~shared.keepAlive
  /\ InitOpt({})

\* Agent.run
Init == InitAgent /\ InitMem /\ IdleGoal /\ IdleOpt /\ IdleBench /\ IdleRest
Spec == Init /\ [][Next]_vars

\* MemoryStore under any sequence of calls
InitMemOnly == InitMem /\ IdleAgent /\ IdleGoal /\ IdleOpt /\ IdleBench /\ IdleRest
NextMem == MemAdd \/ MemClear
SpecMem == InitMemOnly /\ [][NextMem]_vars

\* MemoryStore with payloads of every kind, read through its context methods
NextContext == MemAddAny \/ MemClear
SpecContext == InitMemOnly /\ [][NextContext]_vars

\* one browser dispatch, made on either variant of the BrowserTool
InitEngines ==
  /\ IdleAgent
  /\ IdleBench /\ IdleRest
  /\ InitMem
  /\ \/ InitGoal /\ IdleOpt
     \/ /\ OffGoal
        /\ InitShared(EnvValues \ {"5"}, Decisions, BOOLEAN, BOOLEAN, {1})
        /\ InitOpt({1})
NextEngines == NextGoal \/ NextOpt
SpecEngines == InitEngines /\ [][NextEngines]_vars
\* one dispatch of executeGoal
InitGoalOnly == IdleAgent /\ IdleBench /\ IdleRest /\ InitMem /\ InitGoal /\ IdleOpt
SpecGoal == InitGoalOnly /\ [][NextGoal]_vars
\* every awaited call returns or throws
SpecEnginesFair == SpecEngines /\ WF_vars(NextEngines)

\* concurrent dispatches on the shared session, with a short inner budget
SharedRepertoire ==
  {[method |-> "ACT", instruction |-> "a"], [method |-> "CLOSE", instruction |-> "a"]}
InitSharedUse ==
  /\ IdleAgent
  /\ IdleBench /\ IdleRest
  /\ InitMem
  /\ IdleGoal
  /\ InitShared({"2"}, SharedRepertoire, {TRUE}, {FALSE}, Tools)
  /\ InitOpt(1..NumDispatches)
\* the steps such dispatches can take: their goals are not simple extractions
\* and they collect no results
NextShared ==
  \/ \E d \in Dispatches :
       \/ OStart(d) \/ OInstallOk(d) \/ OInstallFail(d) \/ OGotBrowser(d)
       \/ OInitRejected(d) \/ OGotoOk(d) \/ OGotoFail(d) \/ ODecide(d)
       \/ ODecideFail(d) \/ OActOk(d) \/ OActFail(d) \/ OSummaryOk(d)
       \/ OFinally(d) \/ OCloseDone(d)
  \/ \E s \in 1..MaxDispatches : InitOk(s) \/ InitFail(s)
SpecShared == InitSharedUse /\ [][NextShared]_vars

\* execute calls on one BrowserTool that only share the session: MAX_STEPS=0
\* and no URL, so no call acts on a page
InitSessions ==
  /\ IdleAgent
  /\ IdleBench /\ IdleRest
  /\ InitMem
  /\ IdleGoal
  /\ InitShared({"0"}, {}, {FALSE}, {FALSE}, {1})
  /\ ~shared.keepAlive
  /\ InitOpt(Dispatches)
NextSessions ==
  \/ \E d \in Dispatches :
       \/ OStart(d) \/ OInstallOk(d) \/ OGotBrowser(d) \/ OInitRejected(d)
       \/ OSummaryOk(d) \/ OFinally(d) \/ OCloseDone(d)
  \/ \E s \in 1..MaxDispatches : InitOk(s) \/ InitFail(s)
SpecSessions == InitSessions /\ [][NextSessions]_vars

\* execute calls on both BrowserTool instances that never act on a page:
\* what moves activeConnections, installation failures included
InitConnections ==
  /\ IdleAgent
  /\ IdleBench /\ IdleRest
  /\ InitMem
  /\ IdleGoal
  /\ InitShared({"0"}, {}, {FALSE}, {FALSE}, Tools)
  /\ InitOpt(1..NumDispatches)
NextConnections ==
  \/ \E d \in Dispatches :
       \/ OStart(d) \/ OInstallOk(d) \/ OInstallFail(d) \/ OGotBrowser(d)
       \/ OInitRejected(d) \/ OSummaryOk(d) \/ OFinally(d) \/ OCloseDone(d)
  \/ \E s \in 1..MaxDispatches : InitOk(s) \/ InitFail(s)
SpecConnections == InitConnections /\ [][NextConnections]_vars

\* the benchmark scoring one answer
InitBenchOnly == InitBench /\ IdleAgent /\ InitMem /\ IdleGoal /\ IdleOpt /\ IdleRest
NextBench == Score
SpecBench == InitBenchOnly /\ [][NextBench]_vars

\* the budgets built from two configurations
InitBudgetOnly ==
  /\ InitBudget /\ IdleAgent /\ InitMem /\ IdleGoal /\ IdleOpt /\ IdleBench
  /\ IdleTerminal /\ InitTodo
NextBudget == Construct
SpecBudget == InitBudgetOnly /\ [][NextBudget]_vars

\* one call of the terminal capability
InitTerminalOnly ==
  /\ InitTerminal /\ IdleAgent /\ InitMem /\ IdleGoal /\ IdleOpt /\ IdleBench
  /\ IdleBudget /\ InitTodo
NextTerminal ==
  TerminalBlocked \/ TerminalDirRejected \/ TerminalSpawn \/ TerminalReturn
SpecTerminal == InitTerminalOnly /\ [][NextTerminal]_vars

\* todo.md and this.subtasks under any sequence of operations
InitTodoOnly ==
  /\ InitTodo /\ IdleAgent /\ InitMem /\ IdleGoal /\ IdleOpt /\ IdleBench
  /\ IdleBudget /\ IdleTerminal
NextTodo == TodoCreate \/ TodoAddSubtask \/ TodoUpdateSubtask \/ TodoStepCompleted
SpecTodo == InitTodoOnly /\ [][NextTodo]_vars

\* ================================================================= claims
PostLoop == {"afterloop", "report", "done"}

\* the event that ended the while loop of run(), in the spec's vocabulary
EndingEvent ==
  CASE exitBy = "cond" -> "budget-exhausted"
    [] exitBy = "complete" -> "goal-satisfied"
    [] exitBy = "catch" /\ thrownBy = "handler" -> "handler-error"
    [] exitBy = "catch" /\ thrownBy = "planner" -> "planner-error"
    [] OTHER -> "none"

\* the reason a reader of run()'s output can tell from the lines written
ReportedReason ==
  IF "Task completed" \in console THEN "goal-satisfied"
  ELSE IF "Step failed" \in console THEN "handler-error"
  ELSE IF "Failed to determine next step" \in console THEN "planner-error"
  ELSE "none"

\* C1: with this.maxSteps = N, a planner that never reports completion and no
\* call that throws, the loop makes exactly N dispatches (never more on the
\* way) and then ends because the loop test fails: budget exhausted.
C1_BudgetEnforcement ==
  /\ dispatches <= maxSteps
  /\ (aPc \in PostLoop /\ exitBy # "complete" /\ thrownBy = "none")
       => (dispatches = maxSteps /\ planCalls = maxSteps
           /\ EndingEvent = "budget-exhausted")

C1_Witness ==
  aPc = "done" /\ optMaxSteps = 3 /\ dispatches = 3 /\ exitBy = "cond"

\* C2: when the handler of the first dispatch throws, the loop has ended by
\* that handler error after exactly one dispatch, and the one planning call
\* that preceded it stays the only one.
C2_FailFast ==
  (Len(steps) >= 1 /\ steps[1].status = "failed")
    => /\ aPc \in PostLoop
       /\ dispatches = 1
       /\ planCalls = 1
       /\ EndingEvent = "handler-error"

C2_Witness ==
  aPc = "done" /\ Len(steps) = 1 /\ steps[1].status = "failed" /\ maxSteps > 1

\* C5: once determineNextStep has failed, no step of the run makes another
\* planning call or another dispatch (the failed call is not retried).
C5_PlannerErrorFatal ==
  [][thrownBy = "planner" =>
       (planCalls' = planCalls /\ dispatches' = dispatches /\ thrownBy' = "planner")]_vars

C5_Witness ==
  aPc = "done" /\ thrownBy = "planner" /\ dispatches = 1 /\ planCalls = 2
  /\ maxSteps > 2

\* C6: every terminated run reports a reason, one of goal-satisfied,
\* budget-exhausted, handler-error, planner-error, and the reason reported is
\* the event that ended the loop.
C6_ExplicitReason ==
  aPc = "done" =>
    /\ ReportedReason \in {"goal-satisfied", "budget-exhausted", "handler-error",
                           "planner-error"}
    /\ ReportedReason = EndingEvent

\* ---- MemoryStore
\* index of the last clearStepData(s) in the calls made, 0 when there is none
LastClear(s) ==
  LET cleared == {i \in 1..Len(history) :
                    history[i].op = "clear" /\ history[i].stepId = s}
  IN IF cleared = {} THEN 0 ELSE CHOOSE i \in cleared : \A j \in cleared : j <= i

IsAddOf(h, s) == h.op = "add" /\ h.entry.stepId = s

\* the entries added with step id s since it was last cleared, in call order
ExpectedForStep(s) ==
  LET since == SubSeq(history, LastClear(s) + 1, Len(history))
      adds == SelectSeq(since, LAMBDA h : IsAddOf(h, s))
  IN [i \in 1..Len(adds) |-> adds[i].entry]

\* C9: for every step id s, getResultsByStepId(s) is the sequence of entries
\* added with s and not cleared since, in insertion order, repeats kept; it is
\* empty for a step id never added (3 is never added).
C9_ResultsByStepId ==
  \A s \in StepIds \cup {3} : GetResultsByStepId(s) = ExpectedForStep(s)

C9_Witness ==
  \E s \in StepIds :
    /\ LastClear(s) > 1
    /\ Len(GetResultsByStepId(s)) = 2
    /\ GetResultsByStepId(s)[1].type = GetResultsByStepId(s)[2].type

EntrySet(entries) == {entries[i] : i \in DOMAIN entries}
InTypeIndex == UNION {EntrySet(dataByType[t]) : t \in DOMAIN dataByType}
InStepIndex == UNION {EntrySet(dataByStepId[k]) : k \in DOMAIN dataByStepId}
InLog == EntrySet(allData)

\* C10: the by-type index, the by-step index and the chronological log hold
\* the same set of entries after every addResult and clearStepData.
C10_IndicesConsistent ==
  InTypeIndex = InStepIndex /\ InStepIndex = InLog

C10_Witness ==
  /\ \E i \in 1..Len(history) : history[i].op = "clear"
  /\ Len(allData) = 2
  /\ Len(history) = 4
  /\ Cardinality(DOMAIN dataByType) = 2

\* ---- the inner engines of the browser tool
\* the run of a dispatch is over: its result or its error is decided
Over(r) == r.pc \in {"finally", "closing", "done"}

\* a finished run in which every awaited call returned, the oracle was asked
\* and gave the same (method, instruction) pair every time, a pair other than
\* the oracle's own CLOSE
ConstantOracleRun(r) ==
  /\ Over(r)
  /\ r.outcome = "returned"
  /\ r.message # "Error"
  /\ r.decisions > 0
  /\ r.allSame
  /\ r.first.method # "CLOSE"

\* the configured budget leaves room for four decisions
AdmitsFour(r) == r.env \in {"unset", "5"}

\* C3: given an oracle that always returns the same (method, instruction)
\* pair, the inner engine ends by loop detection at the third repeat of the
\* pair (its fourth occurrence): not earlier, and not later or by another exit.
C3_LoopDetection ==
  /\ ConstantOracleRun(goal) /\ AdmitsFour(goal)
       => goal.exit = "loop" /\ goal.decisions = 4
  /\ \A d \in Dispatches :
       ConstantOracleRun(disp[d]) /\ AdmitsFour([env |-> shared.env])
         => disp[d].exit = "loop" /\ disp[d].decisions = 4

\* C4: whatever the oracle answers and whatever MAX_STEPS is configured, a
\* browser dispatch whose awaited calls all return eventually ends.
C4_DispatchTerminates ==
  <>(goal.pc \in {"done", "off"} /\ \A d \in Dispatches : disp[d].pc \in {"done", "off"})

\* C7: on one session the page actions of two dispatches never interleave: no
\* action of one dispatch falls between two actions of another.
C7_NoInterleaving ==
  \A i, j, k \in 1..Len(pageTrace) :
    (i < j /\ j < k /\ pageTrace[i].s = pageTrace[j].s
       /\ pageTrace[j].s = pageTrace[k].s /\ pageTrace[i].d = pageTrace[k].d)
      => pageTrace[j].d = pageTrace[i].d

\* a dispatch that is inside execute's try and has not run its finally
InProgress(r) ==
  r.pc \in {"awaitBrowser", "goto", "quick", "quickSummary", "decide", "ai", "act",
            "sufficient", "summary"}

\* C8: the shared session is never being closed or closed while a dispatch of
\* any BrowserTool instance is in progress on it, and without keep-alive no
\* session is left open once every dispatch has finished.
C8_SessionLifetime ==
  /\ \A d \in Dispatches :
       InProgress(disp[d]) /\ disp[d].browser # 0
         => shared.sess[disp[d].browser] = "open"
  /\ ((\A d \in Dispatches : disp[d].pc \in {"done", "off"}) /\ ~shared.keepAlive)
       => \A s \in 1..Len(shared.sess) : shared.sess[s] \in {"closed", "failed"}

\* ---- the outer loop: step ids, the ceiling, the exit code
\* C11: the ids of the Steps the planner produces are strictly increasing and
\* none exceeds this.maxSteps; the id the planner is about to give (to a next
\* step or to the completion step) is larger than every earlier one.
C11_StepIdsIncreasing ==
  /\ \A i \in 1..Len(steps) : steps[i].id >= 1 /\ steps[i].id <= maxSteps
  /\ \A i, j \in 1..Len(steps) : i < j => steps[i].id < steps[j].id
  /\ aPc = "plan" =>
       /\ currentStep <= maxSteps
       /\ \A i \in 1..Len(steps) : steps[i].id < currentStep

C11_Witness ==
  aPc = "plan" /\ Len(steps) = 2 /\ steps[2].id = 2 /\ currentStep = 3 /\ maxSteps = 3

\* C12: the maxSteps the caller supplies, 0 included, is a ceiling on the
\* iterations of the outer loop: at the top of every iteration currentStep is
\* at most the supplied value, and the loop never iterates more often than it.
C12_SuppliedCeiling ==
  /\ aPc = "loop" => currentStep <= optMaxSteps
  /\ planCalls <= optMaxSteps

\* ---- the inner engines: failures, results, messages
\* a finished dispatch reports a failure to its caller
FailureReported(r) == Over(r) /\ (r.outcome = "thrown" \/ r.message = "Error")

\* C13: a failing atomic action (the first GOTO or an action of the loop) ends
\* the dispatch in that very step: the failure is reported to the caller, in
\* executeGoal with the session closed, and no further decision is asked for.
C13_ActionFailureEnds ==
  [][/\ (GActFail \/ GGotoFail) =>
          (FailureReported(goal') /\ goal'.session = "closed")
     /\ \A d \in Dispatches :
          (OActFail(d) \/ OGotoFail(d)) => FailureReported(disp'[d])]_vars

\* the reason strings of an incomplete result
IncompleteReasons ==
  {"Task terminated (detected repetitive actions)",
   "Task terminated (reached maximum steps)",
   "Task terminated after detecting repetitive actions",
   "Task terminated after reaching maximum steps"}

\* C14: a dispatch whose inner loop ended by budget exhaustion or by loop
\* detection returns a BrowserResult carrying a reason string; it does not end
\* in an exception or an error result.
C14_IncompleteNotException ==
  /\ (goal.pc = "done" /\ goal.exit \in {"budget", "loop"})
       => (goal.outcome = "returned" /\ goal.message \in IncompleteReasons)
  /\ \A d \in Dispatches :
       (Over(disp[d]) /\ disp[d].exit \in {"budget", "loop"})
         => (disp[d].outcome = "returned" /\ disp[d].message \in IncompleteReasons)

\* the messages that report the goal as completed
SuccessMessages ==
  {"Task completed successfully",
   "Task completed successfully with optimized extraction"}

\* C15: a dispatch reports its goal as completed only if the oracle's last
\* answer was CLOSE; nothing else ends the inner loop as a success.
C15_OnlyCloseCompletes ==
  /\ (goal.pc = "done" /\ goal.outcome = "returned"
        /\ (goal.goalCompleted \/ goal.message \in SuccessMessages))
       => (goal.exit = "close" /\ goal.last.method = "CLOSE")
  /\ \A d \in Dispatches :
       (Over(disp[d]) /\ disp[d].outcome = "returned"
          /\ disp[d].message \in SuccessMessages)
         => (disp[d].exit = "close" /\ disp[d].last.method = "CLOSE")

\* the cause a message names
NamedCause(message) ==
  CASE message \in SuccessMessages -> "completed"
    [] message \in {"Task terminated (reached maximum steps)",
                    "Task terminated after reaching maximum steps"} -> "budget"
    [] message \in {"Task terminated (detected repetitive actions)",
                    "Task terminated after detecting repetitive actions"} -> "loop"
    [] message \in {"Error", "Browser operation failed", "init failed",
                    "Failed to install required browsers"} -> "error"
    [] OTHER -> "none"

\* the cause that ended a finished dispatch
ActualCause(r) ==
  CASE FailureReported(r) -> "error"
    [] r.exit = "close" -> "completed"
    [] r.exit = "budget" -> "budget"
    [] r.exit = "loop" -> "loop"
    [] OTHER -> "other"

\* C16: the message of every finished dispatch names the cause that ended it:
\* completed by CLOSE, budget exhausted, repetitive action, or error.
C16_MessageNamesCause ==
  /\ goal.pc = "done" => NamedCause(goal.message) = ActualCause(goal)
  /\ \A d \in Dispatches :
       Over(disp[d]) => NamedCause(disp[d].message) = ActualCause(disp[d])

\* C17: the process exits with 0 when the run ended normally (goal satisfied
\* or budget exhausted, the report written or not needed) and with a non-zero
\* code when it ended by a fatal planner or handler error.
C17_ExitCode ==
  aPc = "done" =>
    /\ (EndingEvent \in {"goal-satisfied", "budget-exhausted"}
          /\ "Failed to generate report" \notin console) => ExitCode = 0
    /\ EndingEvent \in {"handler-error", "planner-error"} => ExitCode # 0

\* ---- MemoryStore: the context methods
\* C18: getFormattedContext and getConciseContext never throw, whatever
\* payloads were added.
C18_ContextNeverThrows ==
  /\ ~GetFormattedContext.threw
  /\ \A n \in 1..MaxEntries : ~GetConciseContext(n).threw

\* the ids of the entries of a sequence
Ids(entries) == {entries[i].id : i \in 1..Len(entries)}

\* the last n entries added and still stored (all of them when fewer)
LastAdded(n) ==
  SubSeq(allData, IF Len(allData) > n THEN Len(allData) - n + 1 ELSE 1, Len(allData))

\* C19: getConciseContext(N) renders exactly the N entries added last (all when
\* fewer are stored), also when several entries carry the same timestamp.
C19_ConciseMostRecent ==
  \A n \in 1..MaxEntries :
    ~GetConciseContext(n).threw
      => Ids(GetConciseContext(n).entries) = Ids(LastAdded(n))

\* ---- the benchmark
\* C20: a numerical answer within 1% of the expected number is counted as
\* correct.
C20_WithinOnePercentCorrect ==
  (bench.pc = "scored" /\ IsFloat(bench.groundTruth)
     /\ WithinOnePercent(bench.groundTruth, bench.modelAnswer))
    => bench.isCorrect

\* ---- the outer loop: steps, capabilities, the log
\* the dispatch of step i has ended
DispatchEnded(i) == i < Len(steps) \/ aPc # "exec"

\* C21: in either orchestrator a step is running while its capability is
\* dispatched, and once the dispatch has ended it is completed if the
\* dispatch returned and failed, with the error kept, if it threw.
C21_StepStatus ==
  \A i \in 1..Len(steps) :
    IF DispatchEnded(i)
    THEN /\ steps[i].status \in {"completed", "failed"}
         /\ steps[i].status = "failed" <=> (i = Len(steps) /\ thrownBy = "handler")
         /\ steps[i].status = "failed" => steps[i].error # "none"
    ELSE steps[i].status = "running"

\* C22: for every step whose dispatch has ended, exactly one capability
\* handler was invoked, whatever the capability-selection oracle returned.
C22_OneCapabilityPerStep ==
  \A i \in 1..Len(steps) : DispatchEnded(i) => steps[i].invoked = 1

\* C23: every step whose dispatch returned has an entry carrying its id in
\* the log (nothing is planned before the entry is there).
C23_EntryBeforeNextPlan ==
  \A i \in 1..Len(steps) :
    steps[i].status = "completed"
      => \E k \in 1..Len(researchData) : researchData[k].stepId = steps[i].id

\* C24: the log is in completion order: the entry of an invocation that
\* completed earlier precedes the entry of one that completed later.
C24_LogInCompletionOrder ==
  \A i, j \in 1..Len(researchData) :
    i < j => researchData[i].rank < researchData[j].rank

\* ---- executeGoal: steps, session, results
\* C25: the totalSteps of a BrowserResult never exceeds the inner MAX_STEPS,
\* budget exhaustion included.
C25_TotalStepsWithinBudget ==
  (goal.outcome = "returned" /\ goal.MAX_STEPS # NaN)
    => goal.totalSteps <= goal.MAX_STEPS

\* C26: when the dispatch has returned or thrown, its session is closed,
\* whichever way executeGoal was left (a dispatch that failed before it
\* started a session has none).
C26_SessionClosedOnExit ==
  goal.pc = "done"
    => IF goal.message = "Failed to install required browsers"
       THEN goal.session = "none"
       ELSE goal.session = "closed"
C26_Witness ==
  /\ goal.pc = "done"
  /\ goal.outcome = "thrown"
  /\ goal.decisions >= 1
  /\ goal.session = "closed"

\* the records of one type among the results
OfType(results, t) == {i \in 1..Len(results) : results[i] = t}

\* C27: a dispatch with a start URL whose oracle chose k actions and then
\* CLOSE, with no loop detected, returns totalSteps = k + 2 and one record
\* of type extract per EXTRACT chosen; with a single EXTRACT, totalSteps is 3
\* and the results are that one extract record.
C27_StepsAndExtracts ==
  (goal.outcome = "returned" /\ goal.exit = "close" /\ goal.url
     /\ goal.stepCount < StepCap)
    => /\ goal.totalSteps = goal.decisions + 1
       /\ Cardinality(OfType(goal.results, "extract")) = goal.extracts
       /\ (goal.decisions = 2 /\ goal.first.method = "EXTRACT")
            => (goal.totalSteps = 3 /\ goal.results = <<"extract">>)
C27_Witness ==
  /\ goal.outcome = "returned"
  /\ goal.exit = "close"
  /\ goal.decisions = 2
  /\ goal.first.method = "EXTRACT"
  /\ goal.totalSteps = 3

\* C28: the initial GOTO is performed only when a start URL was given.
C28_GotoOnlyWithUrl == goal.gotos > 0 => goal.url

\* the type of the ExtractedData the spec has each extracting method append
RecordType(method) ==
  CASE method = "EXTRACT" -> "extract"
    [] method = "HTML" -> "html"
    [] method = "OBSERVE" -> "observe"

\* C29: every EXTRACT, HTML or OBSERVE that executed successfully appends
\* exactly one ExtractedData of its type to results, and the execution of no
\* other method appends anything.
C29_OneRecordPerExtraction ==
  [][(goal.pc = "act" /\ goal'.pc = "top")
       => IF goal.cur.method \in {"EXTRACT", "HTML", "OBSERVE"}
          THEN goal'.results = Append(goal.results, RecordType(goal.cur.method))
          ELSE goal'.results = goal.results]_vars

\* ---- MemoryStore.clearStepData
\* the entries of a list that do not belong to step s, in the order of the list
OtherSteps(entries, s) == SelectSeq(entries, LAMBDA e : e.stepId # s)

\* the step the call just made cleared, 0 when the call was no clearStepData
JustCleared ==
  IF /\ Len(history') = Len(history) + 1
     /\ history'[Len(history')].op = "clear"
  THEN history'[Len(history')].stepId
  ELSE 0

\* C30: clearStepData(s) leaves no entry of step s in the log or in either
\* index, and keeps every entry of every other step, unchanged and in the
\* same relative order, in the log and in both indices.
C30_ClearRemovesOnlyThatStep ==
  [][JustCleared # 0 =>
       LET s == JustCleared
       IN /\ allData' = OtherSteps(allData, s)
          /\ MapGetOrEmpty(dataByStepId', s) = <<>>
          /\ \A u \in StepIds \ {s} :
               MapGetOrEmpty(dataByStepId', u) = MapGetOrEmpty(dataByStepId, u)
          /\ \A t \in Types :
               MapGetOrEmpty(dataByType', t)
                 = OtherSteps(MapGetOrEmpty(dataByType, t), s)]_vars
C30_Witness ==
  /\ Len(history) >= 3
  /\ history[Len(history)].op = "clear"
  /\ history[Len(history) - 1].op = "add"
  /\ history[Len(history) - 1].entry.stepId = history[Len(history)].stepId
  /\ allData # <<>>

\* ---- the two step budgets
\* C31: the inner and the outer budget are independent: one change of the
\* configuration never changes both the number of outer iterations and the
\* number of atomic actions a browser dispatch is allowed.
C31_BudgetsIndependent ==
  budget.pc = "built"
    => ~(budget.outer[1] # budget.outer[2] /\ budget.inner[1] # budget.inner[2])

\* ---- the shared session: handing out, the connection counter
\* C32: the session a dispatch receives from getBrowserInstance is open: it
\* is neither closed nor being closed by a closeBrowser that awaits its close.
C32_NeverHandedClosingSession ==
  [][\A d \in Dispatches :
       (disp[d].pc = "awaitBrowser" /\ disp'[d].pc \notin {"awaitBrowser", "finally"})
         => shared.sess[disp'[d].browser] = "open"]_vars

\* the dispatches of a BrowserTool instance that are past activeConnections++
\* and have not yet run activeConnections--
Counted(t) ==
  {d \in Dispatches : disp[d].tool = t /\ (InProgress(disp[d]) \/ disp[d].pc = "finally")}

\* C34: activeConnections is never negative, equals the number of execute
\* calls between the increment and the decrement, and is 0 once every
\* dispatch has finished, those that failed during session creation included.
C34_ActiveConnections ==
  \A t \in Tools :
    /\ tool[t].activeConnections >= 0
    /\ tool[t].activeConnections = Cardinality(Counted(t))
    /\ (\A d \in Dispatches : disp[d].pc \in {"done", "off"})
         => tool[t].activeConnections = 0
C34_Witness ==
  /\ \A d \in Dispatches : disp[d].pc \in {"done", "off"}
  /\ \E d \in Dispatches : disp[d].message = "init failed"
  /\ \A t \in Tools : tool[t].activeConnections = 0

\* the dispatches that await the initPromise of an initialisation in progress
Overlapping ==
  {d \in Dispatches : /\ disp[d].pc = "awaitBrowser"
                      /\ disp[d].waitOn # 0
                      /\ shared.sess[disp[d].waitOn] = "initializing"}

\* C33: at most one session initialisation is in progress at a time, all the
\* getBrowserInstance calls that overlap with it await that same session,
\* and when none is in progress and no session is held the flags let the
\* next call start a fresh initialisation.
C33_SingleInitialisation ==
  /\ Cardinality({s \in 1..Len(shared.sess) : shared.sess[s] = "initializing"}) <= 1
  /\ \A d, e \in Overlapping : disp[d].waitOn = disp[e].waitOn
  /\ ((\A s \in 1..Len(shared.sess) : shared.sess[s] # "initializing")
        /\ shared.browserInstance = 0)
       => ~(shared.isBrowserInitializing /\ shared.initPromise # 0)

\* ---- loop detection and the decisions before it
\* C35: the inner loop is ended by loop detection only when the four most
\* recent decisions of the oracle are the same (method, instruction) pair: a
\* different decision in between, AI_HANDLE included, resets the counter.
C35_LoopOnlyOnFourSame ==
  /\ goal.exit = "loop" => goal.run = 4
  /\ \A d \in Dispatches : disp[d].exit = "loop" => disp[d].run = 4

\* ---- the planner's context
\* C36: at every planning call the context the orchestrator builds equals
\* what MemoryStore.getFormattedContext returns for the same logged entries;
\* it is the sentinel exactly when the log is empty.
C36_ContextsAgree ==
  aPc = "plan"
    => /\ GetPreviousStepsContext = FormattedContextOf(researchData)
       /\ GetPreviousStepsContext.first <=> researchData = <<>>

\* ---- report generation
\* C37: in every run generateReport is invoked at most once, only after the
\* outer loop has ended (by completion, budget exhaustion or error), and it
\* is invoked exactly when at least one entry was recorded during the run.
C37_ReportOnce ==
  /\ reportCalls <= 1
  /\ reportCalls = 1 => (aPc \in {"report", "done"} /\ exitBy # "none")
  /\ aPc = "done" => (reportCalls = 1 <=> researchData # <<>>)
C37_Witness ==
  /\ aPc = "done"
  /\ reportCalls = 1
  /\ exitBy = "catch"

\* ---- the terminal capability
\* a command that contains a pattern of the dangerous-command list, in any
\* letter case
ContainsDangerous(command) ==
  \E i \in 1..Len(command), cmd \in DangerousCommands :
    ToLowerCase(command[i]) = ToLowerCase(cmd)

\* C38: no process is ever started for a command that contains a pattern of
\* the dangerous-command list, whatever its letter case: such a command ends
\* in the error result.
C38_DangerousNeverRuns ==
  /\ terminal.pc \in {"spawned", "ran"} => ~ContainsDangerous(terminal.command)
  /\ (terminal.pc = "returned" /\ ContainsDangerous(terminal.command)
        /\ terminal.dirAllowed)
       => terminal.error = "Potentially dangerous command blocked for safety"

\* ---- todo.md
\* the subtask lines of todo.md, in file order
SubtaskLines == SelectSeq(todo.lines, IsSubtaskLine)

\* C39: after createTodoMd with n subtasks and then addSubtask calls only,
\* the subtask lines of todo.md are in creation order and numbered 1, 2, 3,
\* ...: each added subtask comes after all the existing subtask lines.
C39_SubtasksInCreationOrder ==
  (todo.pc = "ready" /\ todo.others = 0)
    => /\ Len(SubtaskLines) = todo.created
       /\ \A i \in 1..Len(SubtaskLines) :
            SubtaskLines[i].num = i /\ SubtaskLines[i].desc = i

\* C40: a subtask is completed in this.subtasks exactly when its line in
\* todo.md is checked.
C40_MemoryAgreesWithFile ==
  todo.pc = "ready"
    => \A i \in 1..Len(todo.subtasks) :
         todo.subtasks[i].status = "completed"
           <=> \E k \in 1..Len(SubtaskLines) :
                 SubtaskLines[k].num = todo.subtasks[i].id /\ SubtaskLines[k].checked

====
